---- MODULE Spec2Model ----
(***************************************************************************)
(* OneWire bus-master contract of embedded-hal (blocking, nb and async     *)
(* traits, their `&mut T` forwarding impls), the nb::block! based blocking *)
(* wrapper over OneMaster, the Command <-> u8 conversions and the v1 -> v2 *)
(* digital pin shim.                                                       *)
(***************************************************************************)
EXTENDS Integers, Sequences, FiniteSets, TLC

VARIABLES conv, variant, call, world, direct, blk, pin, pinDirect, pinRet, pinLog, errk

vars == <<conv, variant, call, world, direct, blk, pin, pinDirect, pinRet, pinLog, errk>>
busVars == <<variant, call, world, direct, blk>>
pinVars == <<pin, pinDirect, pinRet, pinLog>>
errVars == <<errk>>

(***************************************************************************)
(* Command and its wire byte                                               *)
(***************************************************************************)
U8 == 0 .. 255

Commands == {"SkipRom", "ConvertTemperature", "ReadScratchPad"}

\* the discriminants of `#[repr(u8)] enum Command`
Opcodes == {204, 68, 190}

CommandDefs == {"embedded-hal", "src"}

\* faulty variant: the 0xbe arm yields the wrong variant
Command_from_swapped(item) ==
    CASE item = 204 -> "SkipRom"
      [] item = 68 -> "ConvertTemperature"
      [] item = 190 -> "ConvertTemperature"
      [] OTHER -> "SkipRom"

\* faulty variant: the wildcard arm yields ReadScratchPad
Command_from_otherdefault(item) ==
    CASE item = 204 -> "SkipRom"
      [] item = 68 -> "ConvertTemperature"
      [] item = 190 -> "ReadScratchPad"
      [] OTHER -> "ReadScratchPad"

\* embedded-hal/src/onewire.rs: impl From<u8> for Command
Command_from(item) ==
    CASE item = 204 -> "SkipRom"
      [] item = 68 -> "ConvertTemperature"
      [] item = 190 -> "ReadScratchPad"
      [] OTHER -> "SkipRom"

\* embedded-hal/src/onewire.rs: impl Into<u8> for Command
Command_into(self) ==
    CASE self = "SkipRom" -> 204
      [] self = "ConvertTemperature" -> 68
      [] self = "ReadScratchPad" -> 190

\* src/onewire.rs: impl From<u8> for Command
Legacy_Command_from(item) ==
    CASE item = 204 -> "SkipRom"
      [] item = 68 -> "ConvertTemperature"
      [] item = 190 -> "ReadScratchPad"
      [] OTHER -> "SkipRom"

\* src/onewire.rs: impl Into<u8> for Command
Legacy_Command_into(self) ==
    CASE self = "SkipRom" -> 204
      [] self = "ConvertTemperature" -> 68
      [] self = "ReadScratchPad" -> 190

FromU8(d, item) ==
    IF d = "embedded-hal" THEN Command_from(item) ELSE Legacy_Command_from(item)

IntoU8(d, c) ==
    IF d = "embedded-hal" THEN Command_into(c) ELSE Legacy_Command_into(c)

ConvIdle ==
    [def |-> "none", phase |-> "idle", byte |-> 0, cmd |-> "none",
     out |-> 0, back |-> "none"]

\* Command::from(b)
Decode(d, b) ==
    /\ conv.phase = "idle"
    /\ conv' = [ConvIdle EXCEPT !.def = d, !.phase = "decoded", !.byte = b,
                                !.cmd = FromU8(d, b)]

\* ... followed by .into()
Reencode ==
    /\ conv.phase = "decoded"
    /\ conv' = [conv EXCEPT !.phase = "reencoded", !.out = IntoU8(conv.def, conv.cmd)]

\* c.into()
Encode(d, c) ==
    /\ conv.phase = "idle"
    /\ conv' = [ConvIdle EXCEPT !.def = d, !.phase = "encoded", !.cmd = c,
                                !.out = IntoU8(d, c)]

\* ... followed by Command::from(byte)
Redecode ==
    /\ conv.phase = "encoded"
    /\ conv' = [conv EXCEPT !.phase = "redecoded", !.back = FromU8(conv.def, conv.out)]


(***************************************************************************)
(* Bounds and input alphabets of the bus model                             *)
(***************************************************************************)
\* calls a caller issues on one handle
MaxCalls == 3
\* longest caller buffer / byte payload
MaxLen == 2
\* longest Operation sequence of one transaction
MaxOps == 2
\* invocations of one call the recording target keeps (a sliding window)
MaxPolls == 3

\* RomId = u64; the devices the callers address
RomIds == {1, 2}
NoRom == 0
\* bytes a caller writes, bytes a device answers with
PayloadBytes == {68, 190}
DataBytes == {170, 85}

RECURSIVE SeqsUpTo(_, _)
SeqsUpTo(S, n) ==
    IF n = 0 THEN {<<>>}
    ELSE LET shorter == SeqsUpTo(S, n - 1)
         IN  shorter \cup {Append(q, x) : q \in {t \in shorter : Len(t) = n - 1}, x \in S}

Zeroed(len) == [i \in 1 .. len |-> 0]
Payloads == SeqsUpTo(PayloadBytes, MaxLen)
Buffers == {Zeroed(len) : len \in 0 .. MaxLen}

(***************************************************************************)
(* Results: Result<(), E>, nb::Result<(), E>                               *)
(***************************************************************************)
NoResult == [tag |-> "none", kind |-> "none", rom |-> NoRom]
Ok == [tag |-> "Ok", kind |-> "none", rom |-> NoRom]
WouldBlock == [tag |-> "WouldBlock", kind |-> "none", rom |-> NoRom]
Err(kind, rom) == [tag |-> "Err", kind |-> kind, rom |-> rom]

\* ErrorKind
ErrorKinds ==
    {Err("NoDevicePresence", NoRom), Err("Other", NoRom)}
        \cup {Err("RomNotFound", r) : r \in RomIds}

(***************************************************************************)
(* Operation<'a>                                                           *)
(***************************************************************************)
Search(rom_id) == [kind |-> "Search", rom |-> rom_id, data |-> <<>>]
Read(buffer) == [kind |-> "Read", rom |-> NoRom, data |-> buffer]
Write(bytes) == [kind |-> "Write", rom |-> NoRom, data |-> bytes]

Operations ==
    {Search(r) : r \in RomIds} \cup {Read(Zeroed(1))}
        \cup {Write(<<b>>) : b \in PayloadBytes}

OperationSeqs == SeqsUpTo(Operations, MaxOps)

(***************************************************************************)
(* The traits: which operations, with which arguments                      *)
(***************************************************************************)
Sig(name, args) == [name |-> name, args |-> args]

\* embedded-hal/src/onewire.rs: trait OneWire
BlockingSigs ==
    { Sig("bus_reset", <<>>),
      Sig("write", <<"rom_id", "command">>),
      Sig("read", <<"rom_id", "buffer">>),
      Sig("write_iter", <<"rom_id", "bytes_iter">>),
      Sig("write_read", <<"rom_id", "bytes", "buffer">>),
      Sig("write_iter_read", <<"rom_id", "bytes_iter", "buffer">>),
      Sig("transaction", <<"operations">>),
      Sig("transaction_iter", <<"operations_iter">>) }

\* embedded-hal-nb/src/onewire.rs: trait OneWire
NbSigs ==
    { Sig("bus_reset", <<>>),
      Sig("write", <<"rom_id", "command">>),
      Sig("read", <<"rom_id", "buffer">>),
      Sig("write_iter", <<"rom_id", "bytes_iter">>),
      Sig("write_read", <<"rom_id", "bytes", "buffer">>),
      Sig("write_iter_read", <<"rom_id", "bytes_iter", "buffer">>),
      Sig("transaction", <<"operations">>),
      Sig("transaction_iter", <<"operations_iter">>) }

\* embedded-hal-async/src/onewire.rs: trait OneWire
AsyncSigs ==
    { Sig("bus_reset", <<>>),
      Sig("read", <<"rom_id", "buffer">>),
      Sig("write", <<"rom_id", "bytes">>),
      Sig("write_read", <<"rom_id", "bytes", "buffer">>),
      Sig("transaction", <<"operations">>) }

\* src/onewire.rs: trait OneMaster
MasterSigs ==
    { Sig("bus_reset", <<>>),
      Sig("write", <<"rom_id", "command">>),
      Sig("read", <<"rom_id", "buffer">>) }

\* the trait the handle type T implements
ContractVariants == {"blocking", "nb", "async"}
Variants == ContractVariants \cup {"master"}

TraitSigs(v) ==
    CASE v = "blocking" -> BlockingSigs
      [] v = "nb" -> NbSigs
      [] v = "async" -> AsyncSigs
      [] v = "master" -> MasterSigs

\* completion signalling: only the nb-based traits can report would-block
Outcomes(v) ==
    {Ok} \cup ErrorKinds \cup (IF v \in {"nb", "master"} THEN {WouldBlock} ELSE {})


(***************************************************************************)
(* The handle T: a recording target.  Every method appends the invocation  *)
(* it received to `seen`, counts it in `n`, writes the caller's buffers as *)
(* the response r says and returns r.ret.  r is the target's choice.       *)
(***************************************************************************)
Bump(n) == IF n < MaxCalls THEN n + 1 ELSE n

Push(seen, inv) ==
    IF Len(seen) < MaxPolls THEN Append(seen, inv) ELSE Append(Tail(seen), inv)

\* the buffer as the target leaves it: filled on Ok, the first r.part bytes otherwise
Respond(buffer, r) ==
    [i \in 1 .. Len(buffer) |->
        IF r.ret.tag = "Ok" \/ i <= r.part THEN r.fill ELSE buffer[i]]

RespondOps(operations, r) ==
    [i \in 1 .. Len(operations) |->
        IF operations[i].kind = "Read"
        THEN Read(Respond(operations[i].data, r))
        ELSE operations[i]]

Invocation(op, rom_id, command, bytes, operations, buffer, r) ==
    [op |-> op, rom |-> rom_id, cmd |-> command, bytes |-> bytes,
     ops |-> operations, buf |-> buffer, ret |-> r.ret,
     out |-> Respond(buffer, r), opsOut |-> RespondOps(operations, r)]

Invoke(w, inv) ==
    [n |-> Bump(w.n), seen |-> Push(w.seen, inv), buf |-> inv.out,
     ops |-> inv.opsOut, ret |-> inv.ret]

T_bus_reset(w, r) ==
    Invoke(w, Invocation("bus_reset", NoRom, "none", <<>>, <<>>, <<>>, r))

T_write(w, rom_id, command, r) ==
    Invoke(w, Invocation("write", rom_id, command, <<>>, <<>>, <<>>, r))

T_read(w, rom_id, buffer, r) ==
    Invoke(w, Invocation("read", rom_id, "none", <<>>, <<>>, buffer, r))

T_write_iter(w, rom_id, bytes, r) ==
    Invoke(w, Invocation("write_iter", rom_id, "none", bytes, <<>>, <<>>, r))

T_write_read(w, rom_id, bytes, buffer, r) ==
    Invoke(w, Invocation("write_read", rom_id, "none", bytes, <<>>, buffer, r))

T_write_iter_read(w, rom_id, bytes, buffer, r) ==
    Invoke(w, Invocation("write_iter_read", rom_id, "none", bytes, <<>>, buffer, r))

T_transaction(w, operations, r) ==
    Invoke(w, Invocation("transaction", NoRom, "none", <<>>, operations, <<>>, r))

T_transaction_iter(w, operations, r) ==
    Invoke(w, Invocation("transaction_iter", NoRom, "none", <<>>, operations, <<>>, r))

\* the async trait's write takes a byte slice
AsyncT_write(w, rom_id, bytes, r) ==
    Invoke(w, Invocation("write", rom_id, "none", bytes, <<>>, <<>>, r))

\* OneMaster (src/onewire.rs), the poll-driven trait under the blocking wrapper
M_write(w, rom_id, command, r) ==
    Invoke(w, Invocation("write", rom_id, command, <<>>, <<>>, <<>>, r))

M_read(w, rom_id, buffer, r) ==
    Invoke(w, Invocation("read", rom_id, "none", <<>>, <<>>, buffer, r))

(***************************************************************************)
(* What an invocation asks of the bus, phase by phase                      *)
(***************************************************************************)
Phase(ph, rom_id, data, len) == [ph |-> ph, rom |-> rom_id, data |-> data, len |-> len]
Addr(rom_id) == Phase("Addr", rom_id, <<>>, 0)
WritePhase(bytes) == Phase("Write", NoRom, bytes, Len(bytes))
ReadPhase(len) == Phase("Read", NoRom, <<>>, len)

OperationPhase(o) ==
    CASE o.kind = "Search" -> Addr(o.rom)
      [] o.kind = "Read" -> ReadPhase(Len(o.data))
      [] o.kind = "Write" -> WritePhase(o.data)

InvocationPhases(inv) ==
    CASE inv.op = "bus_reset" -> <<Phase("Reset", NoRom, <<>>, 0)>>
      [] inv.op = "write" /\ inv.cmd # "none" ->
            <<Addr(inv.rom), WritePhase(<<Command_into(inv.cmd)>>)>>
      [] inv.op = "write" /\ inv.cmd = "none" -> <<Addr(inv.rom), WritePhase(inv.bytes)>>
      [] inv.op = "write_iter" -> <<Addr(inv.rom), WritePhase(inv.bytes)>>
      [] inv.op = "read" -> <<Addr(inv.rom), ReadPhase(Len(inv.buf))>>
      [] inv.op \in {"write_read", "write_iter_read"} ->
            <<Addr(inv.rom), WritePhase(inv.bytes), ReadPhase(Len(inv.buf))>>
      [] inv.op \in {"transaction", "transaction_iter"} ->
            [i \in 1 .. Len(inv.ops) |-> OperationPhase(inv.ops[i])]

RECURSIVE BusTrace(_)
BusTrace(seen) ==
    IF seen = <<>> THEN <<>>
    ELSE InvocationPhases(Head(seen)) \o BusTrace(Tail(seen))


(***************************************************************************)
(* impl<T: OneWire> OneWire for &mut T: every method is T::method(self, ..) *)
(***************************************************************************)
\* embedded-hal/src/onewire.rs (blocking)
Fwd_bus_reset(w, r) == T_bus_reset(w, r)

Fwd_read(w, rom_id, buffer, r) == T_read(w, rom_id, buffer, r)

Fwd_write(w, rom_id, command, r) == T_write(w, rom_id, command, r)

Fwd_write_iter(w, rom_id, bytes, r) == T_write_iter(w, rom_id, bytes, r)

\* faulty variant: write_read done as a write followed by a separate read
Fwd_write_read_split(w, rom_id, bytes, buffer, r) ==
    T_read(T_write_iter(w, rom_id, bytes, r), rom_id, buffer, r)

Fwd_write_read(w, rom_id, bytes, buffer, r) == T_write_read(w, rom_id, bytes, buffer, r)

\* faulty variant: write_iter_read forwarded to the wrong method
Fwd_write_iter_read_as_write_read(w, rom_id, bytes, buffer, r) ==
    T_write_read(w, rom_id, bytes, buffer, r)

Fwd_write_iter_read(w, rom_id, bytes, buffer, r) == T_write_iter_read(w, rom_id, bytes, buffer, r)

\* faulty variant: the operations reach the target last to first
Fwd_transaction_reversed(w, operations, r) ==
    T_transaction(w, [i \in 1 .. Len(operations) |->
                        operations[Len(operations) + 1 - i]], r)

Fwd_transaction(w, operations, r) == T_transaction(w, operations, r)

Fwd_transaction_iter(w, operations, r) == T_transaction_iter(w, operations, r)

\* embedded-hal-nb/src/onewire.rs
NbFwd_bus_reset(w, r) == T_bus_reset(w, r)

\* faulty variant: the adapter polls the target again when it reports would-block
NbFwd_read_retry(w, rom_id, buffer, r) ==
    LET first == T_read(w, rom_id, buffer, r)
    IN  IF first.ret = WouldBlock THEN T_read(first, rom_id, first.buf, r) ELSE first

NbFwd_read(w, rom_id, buffer, r) == T_read(w, rom_id, buffer, r)

NbFwd_write(w, rom_id, command, r) == T_write(w, rom_id, command, r)

NbFwd_write_iter(w, rom_id, bytes, r) == T_write_iter(w, rom_id, bytes, r)

NbFwd_write_read(w, rom_id, bytes, buffer, r) == T_write_read(w, rom_id, bytes, buffer, r)

NbFwd_write_iter_read(w, rom_id, bytes, buffer, r) == T_write_iter_read(w, rom_id, bytes, buffer, r)

NbFwd_transaction(w, operations, r) == T_transaction(w, operations, r)

NbFwd_transaction_iter(w, operations, r) == T_transaction_iter(w, operations, r)

\* embedded-hal-async/src/onewire.rs, each call awaited
AsyncFwd_bus_reset(w, r) == T_bus_reset(w, r)

AsyncFwd_read(w, rom_id, buffer, r) == T_read(w, rom_id, buffer, r)

AsyncFwd_write(w, rom_id, bytes, r) == AsyncT_write(w, rom_id, bytes, r)

AsyncFwd_write_read(w, rom_id, bytes, buffer, r) == T_write_read(w, rom_id, bytes, buffer, r)

AsyncFwd_transaction(w, operations, r) == T_transaction(w, operations, r)


(***************************************************************************)
(* A caller with exclusive access to one handle.  It issues one call at a  *)
(* time through the `&mut T` adapter; `direct` is what the same call made  *)
(* on T itself gives from the same handle state and the same response.     *)
(***************************************************************************)
NoCall ==
    [route |-> "none", sig |-> Sig("none", <<>>), rom |-> NoRom, cmd |-> "none",
     bytes |-> <<>>, ops |-> <<>>, buf |-> <<>>]

Request(route, sig, rom_id, command, bytes, operations, buffer) ==
    [route |-> route, sig |-> sig, rom |-> rom_id, cmd |-> command,
     bytes |-> bytes, ops |-> operations, buf |-> buffer]

Fresh(n) == [n |-> n, seen |-> <<>>, buf |-> <<>>, ops |-> <<>>, ret |-> NoResult]

\* the target's possible answers to one invocation
Responses(v, hasBuf) ==
    IF hasBuf
    THEN {[ret |-> Ok, fill |-> f, part |-> 0] : f \in DataBytes}
            \cup {[ret |-> o, fill |-> f, part |-> 1] :
                     o \in Outcomes(v) \ {Ok}, f \in DataBytes}
            \cup {[ret |-> o, fill |-> 0, part |-> 0] : o \in Outcomes(v) \ {Ok}}
    ELSE {[ret |-> o, fill |-> 0, part |-> 0] : o \in Outcomes(v)}

HasRead(operations) == \E i \in 1 .. Len(operations) : operations[i].kind = "Read"

CanCall(sig) ==
    /\ variant \in ContractVariants
    /\ call.route = "none"
    /\ world.n < MaxCalls
    /\ sig \in TraitSigs(variant)

Issue(c, viaAdapter, onTarget) ==
    /\ call' = c
    /\ world' = viaAdapter
    /\ direct' = onTarget
    /\ UNCHANGED <<variant, blk>>

Call_bus_reset ==
    LET sig == Sig("bus_reset", <<>>) IN
    /\ CanCall(sig)
    /\ \E r \in Responses(variant, FALSE) :
          Issue(Request("adapter", sig, NoRom, "none", <<>>, <<>>, <<>>),
                CASE variant = "blocking" -> Fwd_bus_reset(world, r)
                  [] variant = "nb" -> NbFwd_bus_reset(world, r)
                  [] variant = "async" -> AsyncFwd_bus_reset(world, r),
                T_bus_reset(world, r))

Call_read ==
    LET sig == Sig("read", <<"rom_id", "buffer">>) IN
    /\ CanCall(sig)
    /\ \E rom_id \in RomIds, buffer \in Buffers, r \in Responses(variant, TRUE) :
          Issue(Request("adapter", sig, rom_id, "none", <<>>, <<>>, buffer),
                CASE variant = "blocking" -> Fwd_read(world, rom_id, buffer, r)
                  [] variant = "nb" -> NbFwd_read(world, rom_id, buffer, r)
                  [] variant = "async" -> AsyncFwd_read(world, rom_id, buffer, r),
                T_read(world, rom_id, buffer, r))

Call_write ==
    LET sig == Sig("write", <<"rom_id", "command">>) IN
    /\ CanCall(sig)
    /\ \E rom_id \in RomIds, command \in Commands, r \in Responses(variant, FALSE) :
          Issue(Request("adapter", sig, rom_id, command, <<>>, <<>>, <<>>),
                CASE variant = "blocking" -> Fwd_write(world, rom_id, command, r)
                  [] variant = "nb" -> NbFwd_write(world, rom_id, command, r),
                T_write(world, rom_id, command, r))

\* the async trait's write(rom_id, &[u8])
Call_write_bytes ==
    LET sig == Sig("write", <<"rom_id", "bytes">>) IN
    /\ CanCall(sig)
    /\ \E rom_id \in RomIds, bytes \in Payloads, r \in Responses(variant, FALSE) :
          Issue(Request("adapter", sig, rom_id, "none", bytes, <<>>, <<>>),
                AsyncFwd_write(world, rom_id, bytes, r),
                AsyncT_write(world, rom_id, bytes, r))

Call_write_iter ==
    LET sig == Sig("write_iter", <<"rom_id", "bytes_iter">>) IN
    /\ CanCall(sig)
    /\ \E rom_id \in RomIds, bytes \in Payloads, r \in Responses(variant, FALSE) :
          Issue(Request("adapter", sig, rom_id, "none", bytes, <<>>, <<>>),
                CASE variant = "blocking" -> Fwd_write_iter(world, rom_id, bytes, r)
                  [] variant = "nb" -> NbFwd_write_iter(world, rom_id, bytes, r),
                T_write_iter(world, rom_id, bytes, r))

Call_write_read ==
    LET sig == Sig("write_read", <<"rom_id", "bytes", "buffer">>) IN
    /\ CanCall(sig)
    /\ \E rom_id \in RomIds, bytes \in Payloads, buffer \in Buffers,
          r \in Responses(variant, TRUE) :
          Issue(Request("adapter", sig, rom_id, "none", bytes, <<>>, buffer),
                CASE variant = "blocking" -> Fwd_write_read(world, rom_id, bytes, buffer, r)
                  [] variant = "nb" -> NbFwd_write_read(world, rom_id, bytes, buffer, r)
                  [] variant = "async" ->
                        AsyncFwd_write_read(world, rom_id, bytes, buffer, r),
                T_write_read(world, rom_id, bytes, buffer, r))

Call_write_iter_read ==
    LET sig == Sig("write_iter_read", <<"rom_id", "bytes_iter", "buffer">>) IN
    /\ CanCall(sig)
    /\ \E rom_id \in RomIds, bytes \in Payloads, buffer \in Buffers,
          r \in Responses(variant, TRUE) :
          Issue(Request("adapter", sig, rom_id, "none", bytes, <<>>, buffer),
                CASE variant = "blocking" ->
                        Fwd_write_iter_read(world, rom_id, bytes, buffer, r)
                  [] variant = "nb" ->
                        NbFwd_write_iter_read(world, rom_id, bytes, buffer, r),
                T_write_iter_read(world, rom_id, bytes, buffer, r))

Call_transaction ==
    LET sig == Sig("transaction", <<"operations">>) IN
    /\ CanCall(sig)
    /\ \E operations \in OperationSeqs :
       \E r \in Responses(variant, HasRead(operations)) :
          Issue(Request("adapter", sig, NoRom, "none", <<>>, operations, <<>>),
                CASE variant = "blocking" -> Fwd_transaction(world, operations, r)
                  [] variant = "nb" -> NbFwd_transaction(world, operations, r)
                  [] variant = "async" -> AsyncFwd_transaction(world, operations, r),
                T_transaction(world, operations, r))

Call_transaction_iter ==
    LET sig == Sig("transaction_iter", <<"operations_iter">>) IN
    /\ CanCall(sig)
    /\ \E operations \in OperationSeqs :
       \E r \in Responses(variant, HasRead(operations)) :
          Issue(Request("adapter", sig, NoRom, "none", <<>>, operations, <<>>),
                CASE variant = "blocking" -> Fwd_transaction_iter(world, operations, r)
                  [] variant = "nb" -> NbFwd_transaction_iter(world, operations, r),
                T_transaction_iter(world, operations, r))

\* the caller has looked at the result and releases its buffers
Settle ==
    /\ call.route # "none"
    /\ blk.pc \in {"idle", "done"}
    /\ call' = NoCall
    /\ world' = Fresh(world.n)
    /\ direct' = Fresh(world.n)
    /\ blk' = [pc |-> "idle", pending |-> NoResult]
    /\ UNCHANGED variant


(***************************************************************************)
(* blocking::onewire: Read and Write for every S: Default (S: OneMaster),  *)
(* built on nb::block!, a loop that evaluates the expression, breaks on Ok *)
(* and on Err(Other(e)) and goes round again on Err(WouldBlock).           *)
(***************************************************************************)
\* #[derive(Clone)] on the field-less enum Command
Command_clone(self) == self

\* faulty variant: an error ends the loop as success
BlockMatch_swallow(res) ==
    CASE res.tag = "Err" -> [brk |-> TRUE, val |-> Ok]
      [] res.tag = "WouldBlock" -> [brk |-> FALSE, val |-> NoResult]
      [] res.tag = "Ok" -> [brk |-> TRUE, val |-> Ok]

\* faulty variant: would-block ends the loop
BlockMatch_giveup(res) ==
    CASE res.tag = "Err" -> [brk |-> TRUE, val |-> res]
      [] res.tag = "WouldBlock" -> [brk |-> TRUE, val |-> Ok]
      [] res.tag = "Ok" -> [brk |-> TRUE, val |-> Ok]

\* the arms of nb::block!
BlockMatch(res) ==
    CASE res.tag = "Err" -> [brk |-> TRUE, val |-> res]
      [] res.tag = "WouldBlock" -> [brk |-> FALSE, val |-> NoResult]
      [] res.tag = "Ok" -> [brk |-> TRUE, val |-> Ok]

CanBlock ==
    /\ variant = "master"
    /\ call.route = "none"
    /\ world.n < MaxCalls

\* Read::read(&mut self, rom_id, buffer) is entered
Blocking_read ==
    /\ CanBlock
    /\ \E rom_id \in RomIds, buffer \in Buffers :
          /\ call' = Request("blocking", Sig("read", <<"rom_id", "buffer">>),
                             rom_id, "none", <<>>, <<>>, buffer)
          /\ world' = [world EXCEPT !.buf = buffer]
    /\ blk' = [pc |-> "eval", pending |-> NoResult]
    /\ UNCHANGED <<variant, direct>>

\* one evaluation of self.read(rom_id, buffer)
Blocking_read_eval ==
    /\ blk.pc = "eval"
    /\ call.sig.name = "read"
    /\ \E r \in Responses(variant, TRUE) :
          LET w == M_read(world, call.rom, world.buf, r)
          IN  /\ world' = [w EXCEPT !.ret = NoResult]
              /\ blk' = [pc |-> "match", pending |-> w.ret]
    /\ UNCHANGED <<variant, call, direct>>

\* the match of nb::block!; its value is what read returns
Blocking_read_match ==
    /\ blk.pc = "match"
    /\ call.sig.name = "read"
    /\ LET m == BlockMatch(blk.pending)
       IN  IF m.brk
           THEN /\ blk' = [blk EXCEPT !.pc = "done"]
                /\ world' = [world EXCEPT !.ret = m.val]
           ELSE /\ blk' = [blk EXCEPT !.pc = "eval"]
                /\ UNCHANGED world
    /\ UNCHANGED <<variant, call, direct>>

\* Write::write(&mut self, rom_id, command) is entered
Blocking_write ==
    /\ CanBlock
    /\ \E rom_id \in RomIds, command \in Commands :
          call' = Request("blocking", Sig("write", <<"rom_id", "command">>),
                          rom_id, command, <<>>, <<>>, <<>>)
    /\ blk' = [pc |-> "eval", pending |-> NoResult]
    /\ UNCHANGED <<variant, world, direct>>

\* one evaluation of self.write(rom_id, command.clone())
Blocking_write_eval ==
    /\ blk.pc = "eval"
    /\ call.sig.name = "write"
    /\ \E r \in Responses(variant, FALSE) :
          LET w == M_write(world, call.rom, Command_clone(call.cmd), r)
          IN  /\ world' = [w EXCEPT !.ret = NoResult]
              /\ blk' = [pc |-> "match", pending |-> w.ret]
    /\ UNCHANGED <<variant, call, direct>>

\* the match of nb::block!, then `?` and Ok(())
Blocking_write_match ==
    /\ blk.pc = "match"
    /\ call.sig.name = "write"
    /\ LET m == BlockMatch(blk.pending)
       IN  IF m.brk
           THEN /\ blk' = [blk EXCEPT !.pc = "done"]
                /\ world' = [world EXCEPT !.ret = IF m.val.tag = "Err" THEN m.val ELSE Ok]
           ELSE /\ blk' = [blk EXCEPT !.pc = "eval"]
                /\ UNCHANGED world
    /\ UNCHANGED <<variant, call, direct>>

(***************************************************************************)
(* digital::v2_compat: the v2 traits for every v1 pin.  The v1 pin is the  *)
(* one of the module's tests, a struct with a `state` flag; what a v1      *)
(* StatefulOutputPin answers is the pin's own choice (answer).             *)
(***************************************************************************)
MaxPinCalls == 3

PinOps == {"set_low", "set_high", "is_set_low", "is_set_high", "is_low", "is_high"}

\* tests::OldOutputPinImpl
V1_set_low(self) == [self EXCEPT !.state = FALSE]
V1_set_high(self) == [self EXCEPT !.state = TRUE]
\* tests::OldInputPinImpl
V1_is_low(self) == ~self.state
V1_is_high(self) == self.state

OkUnit(p) == [pin |-> p, tag |-> "Ok", val |-> "unit"]
OkBool(p, b) == [pin |-> p, tag |-> "Ok", val |-> IF b THEN "true" ELSE "false"]

V2_set_low(self) == OkUnit(V1_set_low(self))

\* faulty variant: set_high forwards to the v1 set_low
V2_set_high_low(self) == OkUnit(V1_set_low(self))

V2_set_high(self) == OkUnit(V1_set_high(self))

V2_is_set_low(self, answer) == OkBool(self, answer)
V2_is_set_high(self, answer) == OkBool(self, answer)
V2_is_low(self) == OkBool(self, V1_is_low(self))
V2_is_high(self) == OkBool(self, V1_is_high(self))

NoPinRet == [op |-> "none", tag |-> "none", val |-> "none"]

PinCall(op, res, v1pin, v1val) ==
    /\ Len(pinLog) < MaxPinCalls
    /\ pin' = res.pin
    /\ pinRet' = [op |-> op, tag |-> res.tag, val |-> res.val]
    /\ pinDirect' = [before |-> pin, pin |-> v1pin, val |-> v1val]
    /\ pinLog' = Append(pinLog, op)

BoolStr(b) == IF b THEN "true" ELSE "false"

Pin_set_low == PinCall("set_low", V2_set_low(pin), V1_set_low(pin), "unit")
Pin_set_high == PinCall("set_high", V2_set_high(pin), V1_set_high(pin), "unit")
Pin_is_set_low ==
    \E answer \in BOOLEAN :
        PinCall("is_set_low", V2_is_set_low(pin, answer), pin, BoolStr(answer))
Pin_is_set_high ==
    \E answer \in BOOLEAN :
        PinCall("is_set_high", V2_is_set_high(pin, answer), pin, BoolStr(answer))
Pin_is_low == PinCall("is_low", V2_is_low(pin), pin, BoolStr(V1_is_low(pin)))
Pin_is_high == PinCall("is_high", V2_is_high(pin), pin, BoolStr(V1_is_high(pin)))

(***************************************************************************)
(* Error::kind for ErrorKind, and ErrorKind's derived equality             *)
(***************************************************************************)
\* largest RomId an error carries
MaxErrRom == 7

ErrRoms == 0 .. MaxErrRom

\* the values of enum ErrorKind
ErrorKindValues ==
    {Err("NoDevicePresence", NoRom), Err("Other", NoRom)}
        \cup {Err("RomNotFound", r) : r \in ErrRoms}

\* faulty variant: every error is reported as Other
ErrorKind_kind_other(self) == Err("Other", NoRom)

\* impl Error for ErrorKind: kind(&self) is *self, a copy of variant and field
ErrorKind_kind(self) ==
    CASE self.kind = "NoDevicePresence" -> Err("NoDevicePresence", NoRom)
      [] self.kind = "RomNotFound" -> Err("RomNotFound", self.rom)
      [] self.kind = "Other" -> Err("Other", NoRom)

\* #[derive(PartialEq)]: the same variant, and for RomNotFound the same RomId
ErrorKind_eq(a, b) ==
    /\ a.kind = b.kind
    /\ a.kind = "RomNotFound" => a.rom = b.rom

ErrIdle ==
    [phase |-> "idle", a |-> NoResult, b |-> NoResult, ka |-> NoResult,
     kb |-> NoResult, eq |-> FALSE]

\* two operations have failed with the errors a and b
Err_raise(a, b) ==
    /\ errk.phase = "idle"
    /\ errk' = [ErrIdle EXCEPT !.phase = "raised", !.a = a, !.b = b]

\* the caller maps both to their portable kind
Err_kind ==
    /\ errk.phase = "raised"
    /\ errk' = [errk EXCEPT !.phase = "mapped", !.ka = ErrorKind_kind(errk.a),
                            !.kb = ErrorKind_kind(errk.b)]

\* ... and compares the kinds
Err_compare ==
    /\ errk.phase = "mapped"
    /\ errk' = [errk EXCEPT !.phase = "compared", !.eq = ErrorKind_eq(errk.ka, errk.kb)]

(***************************************************************************)
(* Specifications                                                          *)
(***************************************************************************)
BusIdle ==
    /\ call = NoCall
    /\ world = Fresh(0)
    /\ direct = Fresh(0)
    /\ blk = [pc |-> "idle", pending |-> NoResult]

PinIdle ==
    /\ pinRet = NoPinRet
    /\ pinDirect = [before |-> pin, pin |-> pin, val |-> "none"]
    /\ pinLog = <<>>

InitCommand ==
    /\ conv = ConvIdle
    /\ variant = "blocking" /\ BusIdle
    /\ pin = [state |-> FALSE] /\ PinIdle
    /\ errk = ErrIdle

NextCommand ==
    \/ (\E d \in CommandDefs, b \in U8 : Decode(d, b)) /\ UNCHANGED <<busVars, pinVars, errVars>>
    \/ Reencode /\ UNCHANGED <<busVars, pinVars, errVars>>
    \/ (\E d \in CommandDefs, c \in Commands : Encode(d, c)) /\ UNCHANGED <<busVars, pinVars, errVars>>
    \/ Redecode /\ UNCHANGED <<busVars, pinVars, errVars>>

SpecCommand == InitCommand /\ [][NextCommand]_vars

InitBus ==
    /\ conv = ConvIdle
    /\ variant \in Variants /\ BusIdle
    /\ pin = [state |-> FALSE] /\ PinIdle
    /\ errk = ErrIdle

BlockingStep ==
    \/ Blocking_read_eval
    \/ Blocking_read_match
    \/ Blocking_write_eval
    \/ Blocking_write_match

NextBus ==
    \/ Call_bus_reset /\ UNCHANGED <<conv, pinVars, errVars>>
    \/ Call_read /\ UNCHANGED <<conv, pinVars, errVars>>
    \/ Call_write /\ UNCHANGED <<conv, pinVars, errVars>>
    \/ Call_write_bytes /\ UNCHANGED <<conv, pinVars, errVars>>
    \/ Call_write_iter /\ UNCHANGED <<conv, pinVars, errVars>>
    \/ Call_write_read /\ UNCHANGED <<conv, pinVars, errVars>>
    \/ Call_write_iter_read /\ UNCHANGED <<conv, pinVars, errVars>>
    \/ Call_transaction /\ UNCHANGED <<conv, pinVars, errVars>>
    \/ Call_transaction_iter /\ UNCHANGED <<conv, pinVars, errVars>>
    \/ Settle /\ UNCHANGED <<conv, pinVars, errVars>>
    \/ Blocking_read /\ UNCHANGED <<conv, pinVars, errVars>>
    \/ Blocking_write /\ UNCHANGED <<conv, pinVars, errVars>>
    \/ Blocking_read_eval /\ UNCHANGED <<conv, pinVars, errVars>>
    \/ Blocking_read_match /\ UNCHANGED <<conv, pinVars, errVars>>
    \/ Blocking_write_eval /\ UNCHANGED <<conv, pinVars, errVars>>
    \/ Blocking_write_match /\ UNCHANGED <<conv, pinVars, errVars>>

SpecBus == InitBus /\ [][NextBus]_vars

\* the thread inside the blocking wrapper keeps running its loop
FairBus == SpecBus /\ WF_vars(BlockingStep /\ UNCHANGED <<conv, pinVars, errVars>>)

InitPin ==
    /\ conv = ConvIdle
    /\ variant = "blocking" /\ BusIdle
    /\ pin \in [state : BOOLEAN] /\ PinIdle
    /\ errk = ErrIdle

NextPin ==
    \/ Pin_set_low /\ UNCHANGED <<conv, busVars, errVars>>
    \/ Pin_set_high /\ UNCHANGED <<conv, busVars, errVars>>
    \/ Pin_is_set_low /\ UNCHANGED <<conv, busVars, errVars>>
    \/ Pin_is_set_high /\ UNCHANGED <<conv, busVars, errVars>>
    \/ Pin_is_low /\ UNCHANGED <<conv, busVars, errVars>>
    \/ Pin_is_high /\ UNCHANGED <<conv, busVars, errVars>>

SpecPin == InitPin /\ [][NextPin]_vars


InitError ==
    /\ conv = ConvIdle
    /\ variant = "blocking" /\ BusIdle
    /\ pin = [state |-> FALSE] /\ PinIdle
    /\ errk = ErrIdle

NextError ==
    \/ (\E a \in ErrorKindValues, b \in ErrorKindValues : Err_raise(a, b))
          /\ UNCHANGED <<conv, busVars, pinVars>>
    \/ Err_kind /\ UNCHANGED <<conv, busVars, pinVars>>
    \/ Err_compare /\ UNCHANGED <<conv, busVars, pinVars>>

SpecError == InitError /\ [][NextError]_vars

(***************************************************************************)
(* Properties                                                              *)
(***************************************************************************)
Adapter == call.route = "adapter"
Returned == call.route = "blocking" /\ blk.pc = "done"
LastSeen == world.seen[Len(world.seen)]

\* C1: for both definitions of Command, a byte of {0xCC, 0x44, 0xBE} decoded
\* and encoded again is that byte, and a Command encoded and decoded again is
\* that Command.
C1_RoundTrip ==
    /\ (conv.phase = "reencoded" /\ conv.byte \in Opcodes) => conv.out = conv.byte
    /\ conv.phase = "redecoded" => conv.back = conv.cmd

C1_Witness ==
    /\ conv.phase = "reencoded"
    /\ conv.def = "embedded-hal"
    /\ conv.byte = 190

\* C2: decoding is total over the 256 byte values (it always yields one of
\* the three Commands), every byte outside {0xCC, 0x44, 0xBE} decodes to
\* SkipRom, and such a byte encoded again is 0xCC.
C2_TotalDecode ==
    /\ \A d \in CommandDefs, b \in U8 : FromU8(d, b) \in Commands
    /\ (conv.phase \in {"decoded", "reencoded"} /\ conv.byte \notin Opcodes)
          => conv.cmd = "SkipRom"
    /\ (conv.phase = "reencoded" /\ conv.byte \notin Opcodes) => conv.out = 204

C2_Witness ==
    /\ conv.phase = "reencoded"
    /\ conv.def = "embedded-hal"
    /\ conv.byte = 0
    /\ conv.out = 204

\* C3: after any call made through the `&mut T` adapter, in any of the three
\* variants and after any earlier calls, the result, the caller's buffers
\* and the handle are what the same call made on T itself leaves.
C3_ForwardingTransparent == Adapter => world = direct

C3_Witness ==
    /\ Adapter
    /\ variant = "async"
    /\ call.sig.name = "write_read"
    /\ world.n = 2
    /\ world.ret.tag = "Err"
    /\ world.buf = <<85, 0>>

\* C4: when the blocking wrapper's read or write has returned, every poll but
\* the last reported would-block, the value returned is the last poll's
\* result, which is not would-block, and the buffer holds what that poll left.
C4_BlockingEqualsFinalPoll ==
    Returned =>
        /\ Len(world.seen) >= 1
        /\ \A i \in 1 .. Len(world.seen) - 1 : world.seen[i].ret = WouldBlock
        /\ LastSeen.ret # WouldBlock
        /\ world.ret = LastSeen.ret
        /\ world.buf = LastSeen.out

C4_Witness ==
    /\ Returned
    /\ call.sig.name = "read"
    /\ Len(world.seen) = 3
    /\ world.ret = Ok
    /\ world.buf = <<170, 170>>

\* C5: the operation a caller has just used in one variant exists with the
\* same name and the same arguments in the blocking, the nb and the async
\* trait.
C5_SameOperations ==
    Adapter => \A v \in ContractVariants : call.sig \in TraitSigs(v)

C7_TransactionOrder ==
    (Adapter /\ call.sig.name \in {"transaction", "transaction_iter"}) =>
        /\ Len(world.seen) = 1
        /\ world.seen[1].op = call.sig.name
        /\ world.seen[1].ops = call.ops
        /\ BusTrace(world.seen) =
              [i \in 1 .. Len(call.ops) |-> OperationPhase(call.ops[i])]

C7_Witness ==
    /\ Adapter
    /\ call.sig.name = "transaction"
    /\ call.ops = <<Search(2), Read(Zeroed(1))>>
    /\ world.ops = <<Search(2), Read(<<85>>)>>

\* C8: an adapter call invokes the target once and returns what the target
\* returned, an error and would-block included; the blocking wrapper invokes
\* the underlying operation again only after would-block, and returns the
\* error the underlying operation returned.
C8_NoInternalRetry ==
    /\ Adapter => (Len(world.seen) = 1 /\ world.ret = world.seen[1].ret)
    /\ call.route = "blocking" =>
          /\ \A i \in 1 .. Len(world.seen) - 1 : world.seen[i].ret = WouldBlock
          /\ (blk.pc = "eval" /\ world.seen # <<>>) => LastSeen.ret = WouldBlock
          /\ (blk.pc = "done" /\ LastSeen.ret.tag = "Err") => world.ret = LastSeen.ret

C8_Witness ==
    /\ Returned
    /\ Len(world.seen) = 2
    /\ world.ret = Err("RomNotFound", 2)

\* C9: every v2 call on a v1 pin returns Ok; set_high leaves the pin high and
\* set_low leaves it low, as the v1 call does; a query returns the v1 answer
\* (is_high the state, is_low its negation) and leaves the pin as it was.
C9_ShimTransparent ==
    pinRet.op # "none" =>
        /\ pinRet.tag = "Ok"
        /\ pin = pinDirect.pin
        /\ pinRet.val = pinDirect.val
        /\ pinRet.op = "set_high" => pin.state
        /\ pinRet.op = "set_low" => ~pin.state
        /\ pinRet.op \notin {"set_high", "set_low"} => pin = pinDirect.before
        /\ pinRet.op = "is_high" => pinRet.val = BoolStr(pinDirect.before.state)
        /\ pinRet.op = "is_low" => pinRet.val = BoolStr(~pinDirect.before.state)

C9_Witness ==
    /\ pinRet.op = "set_high"
    /\ pinDirect.before.state = FALSE
    /\ pin.state = TRUE
    /\ Len(pinLog) = 3

\* C10: the blocking wrapper returns Ok or an error, never would-block; it
\* returns only out of a poll that did not report would-block, once such a
\* poll has happened it does return, and while every poll reports would-block
\* it never returns; every poll passes the caller's rom_id,
\* a command equal to the caller's and the caller's buffer as the poll
\* before left it.
C10_BlockingCompletes ==
    /\ [](Returned => world.ret.tag \in {"Ok", "Err"})
    /\ [][(blk.pc # "done" /\ blk'.pc = "done") => blk.pending # WouldBlock]_vars
    /\ (blk.pc = "match" /\ blk.pending # WouldBlock) ~> (blk.pc = "done")
    /\ ([](blk.pending.tag \in {"none", "WouldBlock"})) => [](blk.pc # "done")
    /\ [](call.route = "blocking" =>
            \A i \in 1 .. Len(world.seen) :
                /\ world.seen[i].op = call.sig.name
                /\ world.seen[i].rom = call.rom
                /\ world.seen[i].cmd = call.cmd
                /\ Len(world.seen[i].buf) = Len(call.buf)
                /\ i > 1 => world.seen[i].buf = world.seen[i - 1].out)

C10_Witness ==
    /\ Returned
    /\ call.sig.name = "write"
    /\ call.cmd = "ConvertTemperature"
    /\ Len(world.seen) = 3


\* C11: kind() of an ErrorKind is that ErrorKind, the RomId of RomNotFound
\* included; so a failed bus_reset (NoDevicePresence) is never reported as
\* RomNotFound(r) or Other nor equal to one of them, and the kinds of two
\* errors are equal exactly when the errors are: RomNotFound(r1) equals
\* RomNotFound(r2) only when r1 = r2.
C11_KindKeepsErrorsApart ==
    errk.phase \in {"mapped", "compared"} =>
        /\ errk.ka = errk.a /\ errk.kb = errk.b
        /\ errk.a.kind = "NoDevicePresence" => errk.ka.kind \notin {"RomNotFound", "Other"}
        /\ errk.phase = "compared" =>
              /\ errk.eq <=> (errk.a = errk.b)
              /\ (errk.a.kind = "NoDevicePresence" /\ errk.b.kind # "NoDevicePresence")
                    => ~errk.eq
              /\ (errk.a.kind = "RomNotFound" /\ errk.b.kind = "RomNotFound" /\ errk.eq)
                    => errk.a.rom = errk.b.rom

C11_Witness ==
    /\ errk.phase = "compared"
    /\ errk.a = Err("RomNotFound", 1)
    /\ errk.b = Err("RomNotFound", 2)
    /\ errk.ka = Err("RomNotFound", 1)
    /\ ~errk.eq

====
